---- MODULE Spec2Model ----
(***************************************************************************)
(* Model of tonic/hydra/train.py: main(), the entry point that resolves a  *)
(* checkpoint, merges the persisted configuration, builds environment,     *)
(* test environment, agent and trainer, and runs the trainer.              *)
(*                                                                         *)
(* File names are sequences of one-character strings, so that slicing,     *)
(* split('.'), int() and f'step_{id}' are computed as Python computes      *)
(* them.  Descriptors and snippets are strings; None, '' and {} are the    *)
(* three falsy values that can reach main().                               *)
(***************************************************************************)
EXTENDS Integers, Sequences, FiniteSets, TLC

----------------------------------------------------------------------------
(* Bounds of the model.                                                    *)

MaxEntries == 3
MaxSeed == 2
MaxParallel == 2
MaxSequential == 2

----------------------------------------------------------------------------
(* Python values.                                                          *)

None == "None"
EmptyStr == ""
EmptyDict == "{}"

\* bool(v) for the values a descriptor or snippet can take.
Truthy(v) == v \notin {None, EmptyStr, EmptyDict}

\* `a or b`
Or(a, b) == IF Truthy(a) THEN a ELSE b

\* A path is None or a sequence of components (os.path.join appends one).
PathNone == [isNone |-> TRUE, parts |-> <<>>]
Path(parts) == [isNone |-> FALSE, parts |-> parts]

\* The checkpoint selector: 'last', 'first', 'none' or an integer.
Sel(s) == [s |-> s, k |-> 0]
SelInt(k) == [s |-> "int", k |-> k]

----------------------------------------------------------------------------
(* String operations on file names.                                        *)

StepPrefix == <<"s", "t", "e", "p", "_">>
DigitChars == <<"0", "1", "2", "3", "4", "5", "6", "7", "8", "9">>

IsDigit(c) == \E i \in 1..10 : DigitChars[i] = c
DigitVal(c) == (CHOOSE i \in 1..10 : DigitChars[i] = c) - 1

\* s[:n]
Take(s, n) == SubSeq(s, 1, IF n < Len(s) THEN n ELSE Len(s))
\* s[n:]
Drop(s, n) == SubSeq(s, n + 1, Len(s))

\* s.split('.')[0]
SplitFirst(s) ==
    IF \E i \in 1..Len(s) : s[i] = "."
    THEN LET i == CHOOSE i \in 1..Len(s) :
                      s[i] = "." /\ \A j \in 1..(i - 1) : s[j] # "."
         IN  SubSeq(s, 1, i - 1)
    ELSE s

\* str.strip() as int() applies it (the space is the only whitespace
\* character of the modelled names).
RECURSIVE LStrip(_)
LStrip(s) == IF Len(s) > 0 /\ s[1] = " " THEN LStrip(Tail(s)) ELSE s
RECURSIVE RStrip(_)
RStrip(s) == IF Len(s) > 0 /\ s[Len(s)] = " "
             THEN RStrip(SubSeq(s, 1, Len(s) - 1)) ELSE s
Strip(s) == RStrip(LStrip(s))

\* The digits of an int() literal: digits, with single underscores allowed
\* between digits.
WellFormedDigits(s) ==
    /\ Len(s) > 0
    /\ IsDigit(s[1])
    /\ IsDigit(s[Len(s)])
    /\ \A i \in 1..Len(s) : IsDigit(s[i]) \/ s[i] = "_"
    /\ \A i \in 1..(Len(s) - 1) : ~(s[i] = "_" /\ s[i + 1] = "_")

RECURSIVE DigitsValue(_, _)
DigitsValue(s, acc) ==
    IF Len(s) = 0 THEN acc
    ELSE IF s[1] = "_" THEN DigitsValue(Tail(s), acc)
    ELSE DigitsValue(Tail(s), 10 * acc + DigitVal(s[1]))

\* int(s): [ok |-> FALSE] stands for ValueError.
ParseInt(s) ==
    LET t == Strip(s)
        signed == Len(t) > 0 /\ t[1] \in {"+", "-"}
        body == IF signed THEN Tail(t) ELSE t
    IN  IF WellFormedDigits(body)
        THEN [ok |-> TRUE,
              val |-> IF signed /\ t[1] = "-"
                      THEN 0 - DigitsValue(body, 0)
                      ELSE DigitsValue(body, 0)]
        ELSE [ok |-> FALSE, val |-> 0]

\* str(n) as the f-string formats it.
RECURSIVE FormatNat(_)
FormatNat(n) ==
    IF n < 10 THEN <<DigitChars[n + 1]>>
    ELSE FormatNat(n \div 10) \o <<DigitChars[(n % 10) + 1]>>
FormatInt(n) == IF n < 0 THEN <<"-">> \o FormatNat(0 - n) ELSE FormatNat(n)

\* f'step_{checkpoint_id}'
StepName(id) == StepPrefix \o FormatInt(id)

----------------------------------------------------------------------------
(* The checkpoint resolver, lines 50-91 of main().                         *)

\* os.path.join(path, name): TypeError when path is None.
JoinRaises(path) == path.isNone
Join(path, name) == Path(path.parts \o <<name>>)

\* file[:5] == 'step_'
IsStepEntry(file) == Take(file, 5) = StepPrefix

\* int(file.split('.')[0][5:])
EntryId(file) == ParseInt(Drop(SplitFirst(file), 5))

\* The loop over os.listdir: int() raises ValueError on the first entry with
\* the prefix whose id segment is not an integer literal, whatever the
\* order in which the entries are listed.
ScanRaises(entries) ==
    \E file \in entries : IsStepEntry(file) /\ ~EntryId(file).ok

\* checkpoint_ids after the loop (a list in the code; only max, min and
\* membership are taken of it, so its set of elements is kept).
CheckpointIds(entries) ==
    {EntryId(file).val : file \in {f \in entries : IsStepEntry(f)}}

MaxOf(ids) == CHOOSE m \in ids : \A x \in ids : x <= m
MinOf(ids) == CHOOSE m \in ids : \A x \in ids : m <= x

\* SelectId with the policies of 'last' and 'first' exchanged.
SelectIdSwapped(checkpoint, ids) ==
    IF checkpoint.s = "last" THEN [found |-> TRUE, id |-> MinOf(ids)]
    ELSE IF checkpoint.s = "first" THEN [found |-> TRUE, id |-> MaxOf(ids)]
    ELSE [found |-> checkpoint.k \in ids, id |-> checkpoint.k]

\* SelectId without the membership test on an integer selector.
SelectIdUnchecked(checkpoint, ids) ==
    IF checkpoint.s = "last" THEN [found |-> TRUE, id |-> MaxOf(ids)]
    ELSE IF checkpoint.s = "first" THEN [found |-> TRUE, id |-> MinOf(ids)]
    ELSE [found |-> TRUE, id |-> checkpoint.k]

\* The branch on the selector, for a non-empty checkpoint_ids.
SelectId(checkpoint, ids) ==
    IF checkpoint.s = "last" THEN [found |-> TRUE, id |-> MaxOf(ids)]
    ELSE IF checkpoint.s = "first" THEN [found |-> TRUE, id |-> MinOf(ids)]
    ELSE [found |-> checkpoint.k \in ids, id |-> checkpoint.k]

\* OptOut without the test on the agent.
OptOutSelectorOnly(checkpoint, agent) == checkpoint.s = "none"

\* `checkpoint == 'none' or agent is not None`
OptOut(checkpoint, agent) == checkpoint.s = "none" \/ agent # None

\* What os.listdir(checkpoint_path) lists: the checkpoints directory, or,
\* when checkpoint_path has been reset to None, the working directory.
Listed(path, fs) == IF path.isNone THEN fs.cwd ELSE fs.ckpt

Ev(op, arg) == [op |-> op, arg |-> arg]

\* The body of `if checkpoint_output_dir:` up to line 91.  The result is
\* the value of checkpoint_path, the calls made, and the exception raised.
Resolve(checkpoint_output_dir, checkpoint, agent, fs) ==
    LET loading == <<Ev("logger.log", "Loading experiment")>>
    IN
    IF OptOut(checkpoint, agent)
    THEN [path |-> PathNone, exc |-> "none",
          events |-> loading \o <<Ev("logger.log", "Not loading any weights")>>]
    ELSE
    LET joined == Path(<<checkpoint_output_dir, "checkpoints">>)
        dir == IF fs.isdir THEN joined ELSE PathNone
        probe == loading \o <<Ev("os.path.isdir", joined)>>
                   \o (IF fs.isdir THEN <<>>
                       ELSE <<Ev("logger.error", "is not a directory")>>)
                   \o <<Ev("os.listdir", dir)>>
        entries == Listed(dir, fs)
        ids == CheckpointIds(entries)
        sel == SelectId(checkpoint, ids)
    IN
    IF ScanRaises(entries)
    THEN [path |-> dir, exc |-> "ValueError", events |-> probe]
    ELSE IF ids = {}
    THEN [path |-> PathNone, exc |-> "none",
          events |-> probe \o <<Ev("logger.error", "No checkpoint found")>>]
    ELSE IF ~sel.found
    THEN [path |-> PathNone, exc |-> "none",
          events |-> probe \o <<Ev("logger.error", "Checkpoint not found")>>]
    ELSE IF JoinRaises(dir)
    THEN [path |-> dir, exc |-> "TypeError", events |-> probe]
    ELSE [path |-> Join(dir, StepName(sel.id)), exc |-> "none",
          events |-> probe]

----------------------------------------------------------------------------
(* The rest of main(): merge, construction and training.                   *)

\* Merge with the persisted value taking precedence.
MergePersistedFirst(current, persisted) == Or(persisted, current)

\* `current or config.<field>`, lines 99-103.
Merge(current, persisted) == Or(current, persisted)

\* `test_environment or environment_cfg`, line 116.
TestEnvironmentCfg(test_environment, environment_cfg) ==
    Or(test_environment, environment_cfg)

SeedOffset == 10000

\* TestSeed without the offset.
TestSeedNoOffset(seed) == seed

\* `seed + 10000`, line 119.
TestSeed(seed) == seed + SeedOffset

\* tonic.environments.distribute(builder) without worker arguments: the
\* defaults of its worker_groups and workers_per_group parameters.
DistributeDefaultWorkerGroups == 1
DistributeDefaultWorkersPerGroup == 1

\* The statements of main() in program order.
Stages == <<"start", "resolve", "load_config", "header", "environment",
            "test_environment", "agent", "load", "logger", "trainer",
            "before_training", "run", "after_training", "done">>

StageIndex(stage) == CHOOSE i \in 1..Len(Stages) : Stages[i] = stage

\* After with the logger initialized after the trainer is built.
AfterLoggerLast(stage) ==
    IF stage = "load" THEN "trainer"
    ELSE IF stage = "trainer" THEN "logger"
    ELSE IF stage = "logger" THEN "before_training"
    ELSE Stages[StageIndex(stage) + 1]

\* The statement that follows `stage` in main().
After(stage) == Stages[StageIndex(stage) + 1]

----------------------------------------------------------------------------
(* State.                                                                  *)

VARIABLES
    cfg,        \* cfg.tonic as a container: the current spec
    fs,         \* the checkpoints directory and the working directory
    persisted,  \* the mapping stored in <checkpoint_output_dir>/config.yaml
    failAt,     \* the external call that raises in this run, or "none"
    pc,         \* the statement of main() to execute next
    exc,        \* the exception that ended the run
    locals,     \* the local variables of main()
    args,       \* the captured argument mapping
    trace       \* the calls made so far, in order

vars == <<cfg, fs, persisted, failAt, pc, exc, locals, args, trace>>

NoExc == [type |-> "none", at |-> "none"]

Unbound == "<unbound>"

UnboundLocals ==
    [header |-> Unbound, agent |-> Unbound, environment |-> Unbound,
     test_environment |-> Unbound, trainer |-> Unbound,
     before_training |-> Unbound, after_training |-> Unbound,
     parallel |-> Unbound, sequential |-> Unbound, seed |-> Unbound,
     checkpoint |-> Unbound, checkpoint_output_dir |-> Unbound,
     checkpoint_path |-> Unbound, environment_cfg |-> Unbound,
     test_environment_cfg |-> Unbound]

\* The state at entry of main() for given inputs.
InitWith(Cfgs, Fss, Persisteds, FailAts) ==
    /\ cfg \in Cfgs
    /\ fs \in Fss
    /\ persisted \in Persisteds
    /\ failAt \in FailAts
    /\ pc = "start"
    /\ exc = NoExc
    /\ locals = UnboundLocals
    /\ args = <<>>
    /\ trace = <<>>

----------------------------------------------------------------------------
(* Calls to collaborators.  A call is made and may raise; a call on an     *)
(* object that lacks the method raises without being made.                 *)

Call(op, arg, raises) ==
    [ev |-> Ev(op, arg), made |-> TRUE, raises |-> raises \/ failAt = op]
NoMethod(op) ==
    [ev |-> Ev(op, None), made |-> FALSE, raises |-> TRUE]

RECURSIVE RunCalls(_)
RunCalls(calls) ==
    IF Len(calls) = 0 THEN [events |-> <<>>, ok |-> TRUE]
    ELSE LET c == Head(calls)
             made == IF c.made THEN <<c.ev>> ELSE <<>>
         IN  IF c.raises THEN [events |-> made, ok |-> FALSE]
             ELSE LET rest == RunCalls(Tail(calls))
                  IN  [events |-> made \o rest.events, ok |-> rest.ok]

\* The step of a statement that makes `calls` and then binds `newLocals`.
Step(stage, calls, newLocals) ==
    LET r == RunCalls(calls)
    IN  /\ trace' = trace \o r.events
        /\ IF r.ok
           THEN /\ pc' = After(stage)
                /\ exc' = exc
                /\ locals' = newLocals
           ELSE /\ pc' = "raised"
                /\ exc' = [type |-> "Exception", at |-> stage]
                /\ locals' = locals
        /\ UNCHANGED <<cfg, fs, persisted, failAt, args>>

----------------------------------------------------------------------------
(* Actions: the statements of main().                                      *)

\* Lines 32-50: bind the locals from cfg, capture them, clear the path.
Capture ==
    /\ pc = "start"
    /\ locals' = [locals EXCEPT
           !.header = cfg.header,
           !.agent = cfg.agent,
           !.environment = cfg.environment,
           !.test_environment = cfg.test_environment,
           !.trainer = cfg.trainer,
           !.before_training = cfg.before_training,
           !.after_training = cfg.after_training,
           !.parallel = cfg.parallel,
           !.sequential = cfg.sequential,
           !.seed = cfg.seed,
           !.checkpoint = cfg.checkpoint,
           !.checkpoint_output_dir = cfg.checkpoint_output_dir,
           !.checkpoint_path = PathNone]
    /\ args' = [header |-> locals'.header,
                agent |-> locals'.agent,
                environment |-> locals'.environment,
                test_environment |-> locals'.test_environment,
                trainer |-> locals'.trainer,
                before_training |-> locals'.before_training,
                after_training |-> locals'.after_training,
                parallel |-> locals'.parallel,
                sequential |-> locals'.sequential,
                seed |-> locals'.seed,
                checkpoint |-> locals'.checkpoint,
                checkpoint_output_dir |-> locals'.checkpoint_output_dir]
    /\ pc' = After("start")
    /\ UNCHANGED <<cfg, fs, persisted, failAt, exc, trace>>

\* Lines 53-91: `if checkpoint_output_dir:` and the resolution in it.
ResolveCheckpoint ==
    /\ pc = "resolve"
    /\ IF ~Truthy(locals.checkpoint_output_dir)
       THEN /\ pc' = After("load_config")
            /\ UNCHANGED <<locals, exc, trace>>
       ELSE LET r == Resolve(locals.checkpoint_output_dir, locals.checkpoint,
                             locals.agent, fs)
            IN  /\ trace' = trace \o r.events
                /\ locals' = [locals EXCEPT !.checkpoint_path = r.path]
                /\ IF r.exc = "none"
                   THEN pc' = After("resolve") /\ exc' = exc
                   ELSE pc' = "raised"
                        /\ exc' = [type |-> r.exc, at |-> "resolve"]
    /\ UNCHANGED <<cfg, fs, persisted, failAt, args>>

\* Lines 93-103: read config.yaml and fill the empty fields from it.
LoadConfig ==
    /\ pc = "load_config"
    /\ Step("load_config",
         <<Call("open.config",
                Path(<<locals.checkpoint_output_dir, "config.yaml">>), FALSE)>>,
         [locals EXCEPT
             !.header = Merge(locals.header, persisted.header),
             !.agent = Merge(locals.agent, persisted.agent),
             !.environment = Merge(locals.environment, persisted.environment),
             !.test_environment =
                 Merge(locals.test_environment, persisted.test_environment),
             !.trainer = Merge(locals.trainer, persisted.trainer)])

\* Lines 106-107.
RunHeader ==
    /\ pc = "header"
    /\ Step("header",
         IF Truthy(locals.header)
         THEN <<Call("exec.header", locals.header, FALSE)>> ELSE <<>>,
         locals)

\* Lines 110-113.  distribute() builds an environment from the descriptor
\* at once and raises on a descriptor that instantiates to no environment.
BuildEnvironment ==
    /\ pc = "environment"
    /\ Step("environment",
         <<Call("environment.build",
                [desc |-> locals.environment,
                 parallel |-> locals.parallel,
                 sequential |-> locals.sequential],
                ~Truthy(locals.environment)),
           Call("environment.initialize", [seed |-> locals.seed], FALSE)>>,
         [locals EXCEPT
             !.environment_cfg = locals.environment,
             !.environment = [instance |-> "environment",
                              desc |-> locals.environment]])

\* Lines 116-119.
BuildTestEnvironment ==
    /\ pc = "test_environment"
    /\ LET desc == TestEnvironmentCfg(locals.test_environment,
                                   locals.environment_cfg)
       IN  Step("test_environment",
             <<Call("test_environment.build",
                    [desc |-> desc,
                     parallel |-> DistributeDefaultWorkerGroups,
                     sequential |-> DistributeDefaultWorkersPerGroup],
                    ~Truthy(desc)),
               Call("test_environment.initialize",
                    [seed |-> TestSeed(locals.seed)], FALSE)>>,
             [locals EXCEPT
                 !.test_environment_cfg = desc,
                 !.test_environment = [instance |-> "test_environment",
                                       desc |-> desc]])

\* Lines 122-127.  instantiate() returns a descriptor without a target
\* as it is, and that value has no initialize method.
BuildAgent ==
    /\ pc = "agent"
    /\ Step("agent",
         <<Call("agent.build", [desc |-> locals.agent], FALSE),
           IF Truthy(locals.agent)
           THEN Call("agent.initialize",
                     [spaces |-> locals.environment, seed |-> locals.seed],
                     FALSE)
           ELSE NoMethod("agent.initialize")>>,
         [locals EXCEPT
             !.agent = [instance |-> "agent", desc |-> locals.agent]])

\* LoadWeights without the test on checkpoint_path.
LoadWeightsAlways ==
    /\ pc = "load"
    /\ Step("load",
         <<Call("agent.load", locals.checkpoint_path, FALSE)>>, locals)

\* Lines 130-131.
LoadWeights ==
    /\ pc = "load"
    /\ Step("load",
         IF ~locals.checkpoint_path.isNone
         THEN <<Call("agent.load", locals.checkpoint_path, FALSE)>> ELSE <<>>,
         locals)

\* Lines 134-135.
InitLogger ==
    /\ pc = "logger"
    /\ Step("logger", <<Call("logger.initialize", args, FALSE)>>, locals)

\* Lines 138-143.
BuildTrainer ==
    /\ pc = "trainer"
    /\ Step("trainer",
         <<Call("trainer.build", [desc |-> locals.trainer], FALSE),
           IF Truthy(locals.trainer)
           THEN Call("trainer.initialize",
                     [agent |-> locals.agent,
                      environment |-> locals.environment,
                      test_environment |-> locals.test_environment],
                     FALSE)
           ELSE NoMethod("trainer.initialize")>>,
         [locals EXCEPT
             !.trainer = [instance |-> "trainer", desc |-> locals.trainer]])

\* Lines 146-147.
BeforeTraining ==
    /\ pc = "before_training"
    /\ Step("before_training",
         IF Truthy(locals.before_training)
         THEN <<Call("exec.before_training", locals.before_training, FALSE)>>
         ELSE <<>>,
         locals)

\* Line 150.
Run ==
    /\ pc = "run"
    /\ Step("run", <<Call("trainer.run", None, FALSE)>>, locals)

\* Lines 153-154.
AfterTraining ==
    /\ pc = "after_training"
    /\ Step("after_training",
         IF Truthy(locals.after_training)
         THEN <<Call("exec.after_training", locals.after_training, FALSE)>>
         ELSE <<>>,
         locals)

Next ==
    \/ Capture
    \/ ResolveCheckpoint
    \/ LoadConfig
    \/ RunHeader
    \/ BuildEnvironment
    \/ BuildTestEnvironment
    \/ BuildAgent
    \/ LoadWeights
    \/ InitLogger
    \/ BuildTrainer
    \/ BeforeTraining
    \/ Run
    \/ AfterTraining

----------------------------------------------------------------------------
(* Inputs.                                                                 *)

Name(rest) == StepPrefix \o rest
NotesTxt == <<"n", "o", "t", "e", "s", ".", "t", "x", "t">>

\* Entries a directory may hold: well-formed steps, a step with an
\* extension, a zero-padded step, malformed steps, and another file.
Names ==
    {Name(<<"1">>), Name(<<"2">>), Name(<<"5">>),
     Name(<<"3">>), Name(<<"7">>), Name(<<"1", "2">>),
     Name(<<"5", ".", "p", "t">>), Name(<<"0", "5">>),
     Name(<<"a", "b", "c">>), StepPrefix, NotesTxt}

DirContents == {S \in SUBSET Names : Cardinality(S) <= MaxEntries}
CwdContents == SUBSET {Name(<<"3">>), NotesTxt}

\* Either <checkpoint_output_dir>/checkpoints is a directory with some
\* content, or it is not one and the working directory has some content.
Filesystems ==
    {[isdir |-> TRUE, ckpt |-> S, cwd |-> {}] : S \in DirContents}
    \cup {[isdir |-> FALSE, ckpt |-> {}, cwd |-> S] : S \in CwdContents}

ScenarioFs ==
    [isdir |-> TRUE, cwd |-> {},
     ckpt |-> {Name(<<"1">>), Name(<<"2">>), Name(<<"5">>)}]

Selectors ==
    {Sel("last"), Sel("first"), Sel("none"), SelInt(7), SelInt(99)}

OutputDirs == {None, EmptyStr, "out"}

FailPoints ==
    {"open.config", "exec.header", "environment.build",
     "environment.initialize", "test_environment.build",
     "test_environment.initialize", "agent.build", "agent.initialize",
     "agent.load", "logger.initialize", "trainer.build",
     "trainer.initialize", "exec.before_training", "trainer.run",
     "exec.after_training"}

BaseCfg ==
    [header |-> None, agent |-> None, environment |-> "environment_cur",
     test_environment |-> None, trainer |-> "trainer_cur",
     before_training |-> None, after_training |-> None,
     parallel |-> 1, sequential |-> 1, seed |-> 0,
     checkpoint |-> Sel("last"), checkpoint_output_dir |-> None]

\* config.yaml of the prior run: the mapping the logger saved.
FullPersisted ==
    [header |-> None, agent |-> "agent_per",
     environment |-> "environment_per", test_environment |-> None,
     trainer |-> "trainer_per",
     before_training |-> "before_per", after_training |-> "after_per",
     parallel |-> 4, sequential |-> 4, seed |-> 77,
     checkpoint |-> Sel("first"), checkpoint_output_dir |-> "prior_out"]

\* Which of agent, environment and trainer the current spec supplies.
Supplied ==
    {[agent |-> None, environment |-> None, trainer |-> None],
     [agent |-> None, environment |-> "environment_cur",
      trainer |-> "trainer_cur"],
     [agent |-> EmptyDict, environment |-> "environment_cur",
      trainer |-> "trainer_cur"],
     [agent |-> "agent_cur", environment |-> "environment_cur",
      trainer |-> "trainer_cur"]}

ResolverCfgs ==
    {[BaseCfg EXCEPT !.agent = s.agent, !.environment = s.environment,
                     !.trainer = s.trainer, !.checkpoint = c,
                     !.checkpoint_output_dir = d] :
        s \in Supplied, c \in Selectors, d \in OutputDirs}

\* Runs over every checkpoint directory content, selector and opt-out.
Init ==
    InitWith(ResolverCfgs, Filesystems, {FullPersisted}, {"none", "agent.load"})
Spec == Init /\ [][Next]_vars

\* Runs over every combination of present, empty and absent merged fields
\* in the current spec and present and absent fields in config.yaml.
Snippets(name) == {None, EmptyStr, name}
Descriptors(name) == {None, EmptyDict, name}
Stored(name) == {None, name}

MergeCfgs ==
    {[BaseCfg EXCEPT !.header = h, !.agent = a, !.environment = e,
                     !.test_environment = t, !.trainer = r,
                     !.checkpoint_output_dir = d] :
        h \in Snippets("header_cur"), a \in Descriptors("agent_cur"),
        e \in Descriptors("environment_cur"),
        t \in Descriptors("test_environment_cur"),
        r \in Descriptors("trainer_cur"), d \in OutputDirs}

MergePersisteds ==
    {[FullPersisted EXCEPT !.header = h, !.agent = a, !.environment = e,
                           !.test_environment = t, !.trainer = r] :
        h \in Stored("header_per"), a \in Stored("agent_per"),
        e \in Stored("environment_per"),
        t \in Stored("test_environment_per"), r \in Stored("trainer_per")}

InitMerge == InitWith(MergeCfgs, {ScenarioFs}, MergePersisteds, {"none"})
SpecMerge == InitMerge /\ [][Next]_vars

\* Runs over the worker counts, the seed and the environment descriptors.
EnvCfgs ==
    {[BaseCfg EXCEPT !.agent = a, !.environment = e, !.test_environment = t,
                     !.parallel = p, !.sequential = q, !.seed = n,
                     !.checkpoint_output_dir = d] :
        a \in {None, "agent_cur"}, e \in {None, "environment_cur"},
        t \in Descriptors("test_environment_cur"),
        p \in 1..MaxParallel, q \in 1..MaxSequential, n \in 0..MaxSeed,
        d \in {None, "out"}}

EnvPersisteds ==
    {[FullPersisted EXCEPT !.test_environment = t] :
        t \in Stored("test_environment_per")}

InitEnv == InitWith(EnvCfgs, {ScenarioFs}, EnvPersisteds, {"none"})
SpecEnv == InitEnv /\ [][Next]_vars

\* Runs over the snippets and over the external call that raises.
PipelineCfgs ==
    {[BaseCfg EXCEPT !.header = h, !.agent = a, !.before_training = b,
                     !.after_training = f, !.checkpoint_output_dir = d] :
        h \in Snippets("header_cur"), a \in {None, "agent_cur"},
        b \in Snippets("before_cur"), f \in Snippets("after_cur"),
        d \in {None, "out"}}

PipelinePersisteds ==
    {[FullPersisted EXCEPT !.header = h] : h \in Stored("header_per")}

InitPipeline ==
    InitWith(PipelineCfgs, {ScenarioFs}, PipelinePersisteds,
             FailPoints \cup {"none"})
SpecPipeline == InitPipeline /\ [][Next]_vars

----------------------------------------------------------------------------
(* Properties.                                                             *)

Has(op) == \E i \in DOMAIN trace : trace[i].op = op
Count(op) == Cardinality({i \in DOMAIN trace : trace[i].op = op})
ArgOf(op) == trace[CHOOSE i \in DOMAIN trace : trace[i].op = op].arg
LoggedError(msg) ==
    \E i \in DOMAIN trace : trace[i].op = "logger.error" /\ trace[i].arg = msg

\* The resolver has acted: it returned or raised.
ResolverDone == pc \notin {"start", "resolve"}
ResolverReturned == ResolverDone /\ exc.at # "resolve"

\* The resolver is asked to find a checkpoint.
Resuming ==
    /\ Truthy(cfg.checkpoint_output_dir)
    /\ cfg.agent = None
    /\ cfg.checkpoint.s # "none"

\* Every entry with the prefix has an integer id segment.
WellFormed(entries) ==
    \A e \in entries : IsStepEntry(e) => EntryId(e).ok

\* The step ids of the well-formed entries.
StepIds(entries) ==
    {EntryId(e).val : e \in {f \in entries : IsStepEntry(f) /\ EntryId(f).ok}}

CheckpointsDir == <<cfg.checkpoint_output_dir, "checkpoints">>
StepPath(id) == Path(CheckpointsDir \o <<StepName(id)>>)

Steps_3_7_12 == {Name(<<"3">>), Name(<<"7">>), Name(<<"1", "2">>)}

\* C1: when the output directory is set, the agent is absent, the selector
\* is not 'none' and the scan of the checkpoints directory yields a
\* non-empty id set S, 'last' resolves to step_<max S>, 'first' to
\* step_<min S>, an integer k in S to step_<k>, and an integer k not in S
\* to no checkpoint with an error logged; on {3, 7, 12}: last -> 12,
\* first -> 3, 7 -> 7, 99 -> no checkpoint.
C1_SelectionPolicy ==
    (/\ ResolverDone /\ Resuming
     /\ fs.isdir /\ WellFormed(fs.ckpt) /\ StepIds(fs.ckpt) # {})
    => LET S == StepIds(fs.ckpt)
           sel == cfg.checkpoint
           path == locals.checkpoint_path
       IN  /\ exc.at # "resolve"
           /\ sel.s = "last" =>
                 \E m \in S : (\A x \in S : x <= m) /\ path = StepPath(m)
           /\ sel.s = "first" =>
                 \E m \in S : (\A x \in S : m <= x) /\ path = StepPath(m)
           /\ (sel.s = "int" /\ sel.k \in S) => path = StepPath(sel.k)
           /\ (sel.s = "int" /\ sel.k \notin S) =>
                 path = PathNone /\ LoggedError("Checkpoint not found")
           /\ fs.ckpt = Steps_3_7_12 =>
                 /\ sel.s = "last" => path.parts[3] = Name(<<"1", "2">>)
                 /\ sel.s = "first" => path.parts[3] = Name(<<"3">>)
                 /\ sel = SelInt(7) => path.parts[3] = Name(<<"7">>)
                 /\ sel = SelInt(99) => path = PathNone

C1_Witness ==
    /\ pc = "done" /\ Resuming
    /\ fs.isdir /\ fs.ckpt = Steps_3_7_12
    /\ cfg.checkpoint.s = "last"
    /\ locals.checkpoint_path.parts[3] = Name(<<"1", "2">>)

IsFsOp(op) == op \in {"os.path.isdir", "os.listdir", "open.config"}

\* C3: if the output directory is unset, or the selector is 'none', or the
\* current spec supplies an agent, the resolver yields no checkpoint and
\* the checkpoints directory is neither tested nor listed; with the output
\* directory unset no file is read at all; an agent that comes only from
\* config.yaml does not suppress the scan.
C3_OptOut ==
    /\ (ResolverDone /\ ~Resuming) =>
          /\ locals.checkpoint_path = PathNone
          /\ ~Has("os.path.isdir") /\ ~Has("os.listdir")
          /\ ~Has("agent.load")
    /\ ~Truthy(cfg.checkpoint_output_dir) =>
          \A i \in DOMAIN trace : ~IsFsOp(trace[i].op)
    /\ (ResolverDone /\ Resuming /\ Truthy(persisted.agent)) =>
          Has("os.listdir")

C3_Witness ==
    /\ pc = "done"
    /\ Truthy(cfg.checkpoint_output_dir)
    /\ cfg.agent = "agent_cur"
    /\ cfg.checkpoint.s = "last"
    /\ fs.isdir /\ fs.ckpt = Steps_3_7_12
    /\ locals.checkpoint_path = PathNone
    /\ ~Has("os.listdir")

\* C5: when the resolver is asked to find a checkpoint and the checkpoints
\* directory is missing, or the scan yields no id, or an integer selector
\* is not among the ids, an error is logged, no checkpoint is yielded and
\* the resolver does not end the run, whatever the filesystem holds.
C5_SoftErrors ==
    (/\ ResolverDone /\ Resuming
     /\ \/ ~fs.isdir
        \/ fs.isdir /\ WellFormed(fs.ckpt) /\ StepIds(fs.ckpt) = {}
        \/ /\ fs.isdir /\ WellFormed(fs.ckpt)
           /\ cfg.checkpoint.s = "int"
           /\ cfg.checkpoint.k \notin StepIds(fs.ckpt))
    => /\ exc.at # "resolve"
       /\ locals.checkpoint_path = PathNone
       /\ Has("logger.error")
       /\ ~Has("agent.load")

\* C6: an entry that does not start with step_, or whose id segment is
\* not an integer, contributes nothing, raises no error and leaves the
\* resolution over the well-formed entries unchanged.
C6_MalformedIgnored ==
    (ResolverDone /\ Resuming /\ fs.isdir)
    => LET good == {e \in fs.ckpt : IsStepEntry(e) /\ EntryId(e).ok}
           expected == Resolve(cfg.checkpoint_output_dir, cfg.checkpoint,
                               cfg.agent, [fs EXCEPT !.ckpt = good])
       IN  /\ exc.at # "resolve"
           /\ locals.checkpoint_path = expected.path

\* C7 as stated: whenever the resolver yields step_<id>, an entry named
\* exactly step_<id> was among the entries scanned.
C7_ExactEntryScanned ==
    (ResolverReturned /\ ~locals.checkpoint_path.isNone)
    => locals.checkpoint_path.parts[3] \in fs.ckpt

\* C7 as amended: whenever the resolver yields step_<id>, the checkpoints
\* directory was scanned and held an entry that starts with step_ and
\* whose segment between the prefix and the first '.' parses as id.
C7_EntryWithIdScanned ==
    (ResolverReturned /\ ~locals.checkpoint_path.isNone)
    => /\ fs.isdir
       /\ Has("os.listdir")
       /\ \E e \in fs.ckpt :
             /\ IsStepEntry(e)
             /\ EntryId(e).ok
             /\ locals.checkpoint_path = StepPath(EntryId(e).val)

C7_Witness ==
    /\ ResolverReturned
    /\ fs.ckpt = {Name(<<"5", ".", "p", "t">>), Name(<<"0", "5">>)}
    /\ locals.checkpoint_path.parts = CheckpointsDir \o <<Name(<<"5">>)>>

LoadPassed ==
    pc \in {"logger", "trainer", "before_training", "run",
            "after_training", "done"}

\* C9: agent.load is called at most once, only with the path the resolver
\* yielded and only after agent.initialize; once the load statement is
\* passed it has been called if and only if a path was yielded; in a resume
\* from steps {1, 2, 5} with selector 'last' and agent, environment and
\* trainer omitted, the three are built from the persisted descriptors and
\* load is called with a path ending in step_5.
C9_LoadFollowsResolution ==
    /\ Count("agent.load") <= 1
    /\ \A i \in DOMAIN trace : trace[i].op = "agent.load" =>
          /\ ResolverReturned
          /\ ~locals.checkpoint_path.isNone
          /\ trace[i].arg = locals.checkpoint_path
          /\ \E j \in 1..(i - 1) : trace[j].op = "agent.initialize"
    /\ LoadPassed => (Has("agent.load") <=> ~locals.checkpoint_path.isNone)
    /\ (/\ pc = "done" /\ fs = ScenarioFs
        /\ Truthy(cfg.checkpoint_output_dir)
        /\ cfg.checkpoint.s = "last"
        /\ cfg.agent = None /\ cfg.environment = None /\ cfg.trainer = None)
       => /\ ArgOf("agent.build").desc = persisted.agent
          /\ ArgOf("environment.build").desc = persisted.environment
          /\ ArgOf("trainer.build").desc = persisted.trainer
          /\ ArgOf("agent.load").parts[3] = Name(<<"5">>)

C9_Witness ==
    /\ pc = "done" /\ fs = ScenarioFs
    /\ Truthy(cfg.checkpoint_output_dir)
    /\ cfg.checkpoint.s = "last"
    /\ cfg.agent = None /\ cfg.environment = None /\ cfg.trainer = None
    /\ Count("agent.load") = 1
    /\ ArgOf("agent.load").parts[3] = Name(<<"5">>)

MergedFields ==
    {"header", "agent", "environment", "test_environment", "trainer"}
CurrentOnlyFields ==
    {"before_training", "after_training", "parallel", "sequential", "seed",
     "checkpoint", "checkpoint_output_dir"}

\* The effective value of a merged field as the reconciler is specified.
Effective(f) ==
    IF Truthy(cfg.checkpoint_output_dir)
    THEN IF Truthy(cfg[f]) THEN cfg[f] ELSE persisted[f]
    ELSE cfg[f]

\* C2: with the output directory set, each of header, agent, environment,
\* test_environment and trainer has the current spec's value if that is
\* truthy and the value of config.yaml otherwise; the other fields always
\* have the current spec's values; with the output directory unset every
\* field has the current spec's value.
C2_Merge ==
    /\ pc = "header" => \A f \in MergedFields : locals[f] = Effective(f)
    /\ pc # "start" => \A f \in CurrentOnlyFields : locals[f] = cfg[f]

C2_Witness ==
    /\ pc = "header"
    /\ Truthy(cfg.checkpoint_output_dir)
    /\ cfg.header = EmptyStr /\ persisted.header = "header_per"
    /\ cfg.agent = None /\ persisted.agent = "agent_per"
    /\ cfg.environment = "environment_cur"
    /\ persisted.environment = "environment_per"
    /\ locals.header = "header_per"
    /\ locals.agent = "agent_per"
    /\ locals.environment = "environment_cur"
    /\ locals.seed = cfg.seed /\ locals.seed # persisted.seed

\* C8: the mapping passed to logger.initialize holds every top-level field
\* with its effective value and does not hold the raw cfg object.
C8_LoggedEffectiveSpec ==
    Has("logger.initialize") =>
        LET config == ArgOf("logger.initialize")
        IN  /\ DOMAIN config = MergedFields \cup CurrentOnlyFields
            /\ \A f \in MergedFields : config[f] = Effective(f)
            /\ \A f \in CurrentOnlyFields : config[f] = cfg[f]

PipelineOps == FailPoints \ {"open.config"}
IsPipelineEvent(e) == e.op \in PipelineOps
OpsOf(events) == [i \in 1..Len(events) |-> events[i].op]
Opt(cond, op) == IF cond THEN <<op>> ELSE <<>>

ExpectedPipeline ==
    Opt(Truthy(locals.header), "exec.header")
    \o <<"environment.build", "environment.initialize",
         "test_environment.build", "test_environment.initialize",
         "agent.build", "agent.initialize">>
    \o Opt(~locals.checkpoint_path.isNone, "agent.load")
    \o <<"logger.initialize", "trainer.build", "trainer.initialize">>
    \o Opt(Truthy(cfg.before_training), "exec.before_training")
    \o <<"trainer.run">>
    \o Opt(Truthy(cfg.after_training), "exec.after_training")

\* C4: in a run that completes, the calls are exactly, in this order and
\* once each: header snippet if non-empty, environment build and
\* initialize(seed), test environment build and initialize, agent build and
\* initialize with the environment and the seed, agent.load if a path was
\* resolved, logger.initialize, trainer build and initialize with agent,
\* environment and test environment, before_training if non-empty,
\* trainer.run, after_training if non-empty.
C4_PipelineOrder ==
    pc = "done" =>
        /\ OpsOf(SelectSeq(trace, IsPipelineEvent)) = ExpectedPipeline
        /\ ArgOf("environment.initialize").seed = cfg.seed
        /\ ArgOf("agent.initialize").seed = cfg.seed
        /\ ArgOf("agent.initialize").spaces.instance = "environment"
        /\ ArgOf("trainer.initialize").agent.instance = "agent"
        /\ ArgOf("trainer.initialize").environment.instance = "environment"
        /\ ArgOf("trainer.initialize").test_environment.instance =
               "test_environment"

C4_Witness ==
    /\ pc = "done"
    /\ Truthy(locals.header)
    /\ Truthy(cfg.before_training)
    /\ Truthy(cfg.after_training)
    /\ Has("agent.load")
    /\ Len(SelectSeq(trace, IsPipelineEvent)) = 14

\* C10: the test environment is built with parallel = 1 and sequential = 1,
\* from the test_environment descriptor if there is one and otherwise from
\* the descriptor the training environment is built from, and initialized
\* with seed + 10000, the training environment with seed.
C10_TestEnvironment ==
    /\ \A i \in DOMAIN trace : trace[i].op = "test_environment.build" =>
          /\ trace[i].arg.parallel = 1
          /\ trace[i].arg.sequential = 1
          /\ trace[i].arg.desc =
                 IF Truthy(Effective("test_environment"))
                 THEN Effective("test_environment")
                 ELSE ArgOf("environment.build").desc
    /\ \A i \in DOMAIN trace : trace[i].op = "test_environment.initialize" =>
          trace[i].arg.seed = cfg.seed + 10000
    /\ \A i \in DOMAIN trace : trace[i].op = "environment.initialize" =>
          trace[i].arg.seed = cfg.seed
    /\ pc = "done" => Count("test_environment.build") = 1

C10_Witness ==
    /\ pc = "done"
    /\ cfg.parallel > 1 /\ cfg.sequential > 1 /\ cfg.seed > 0
    /\ ~Truthy(Effective("test_environment"))
    /\ ArgOf("environment.build").parallel = cfg.parallel
    /\ ArgOf("test_environment.build").parallel = 1
    /\ ArgOf("test_environment.build").desc = ArgOf("environment.build").desc
    /\ ArgOf("test_environment.initialize").seed = cfg.seed + 10000

====
